---- MODULE Spec2Model ----
(***************************************************************************)
(* A model of weewx's setup.py: the timestamped backup mover               *)
(* (move_with_timestamp), the configuration installer                      *)
(* (update_and_install_config), the user-directory preserving install_lib  *)
(* (weewx_install_lib.run) and the skin filter of install_data             *)
(* (weewx_install_data.run).                                               *)
(*                                                                         *)
(* A path is a sequence of text atoms whose concatenation is the path      *)
(* string; the separator is always the atom "/".  String operations of the *)
(* source (+, startswith, os.path.join, os.path.normpath) are sequence     *)
(* operations on atoms.  The filesystem is a function from the normalised  *)
(* paths that exist to nodes [kind, data].                                 *)
(***************************************************************************)
EXTENDS Integers, Sequences, FiniteSets, TLC

VARIABLES
    fs,               \* the filesystem: normalised path -> node
    fs0,              \* the filesystem when the operation started (history)
    now,              \* the clock, in seconds
    install_dir,      \* update_and_install_config: argument install_dir
    dry_run,          \* update_and_install_config: argument dry_run
    no_prompt,        \* update_and_install_config: argument no_prompt
    pc,               \* position in the running operation
    dist_config_dict, \* update_and_install_config: the parsed template
    config_dict,      \* update_and_install_config: the tree to be written
    tmpfn,            \* update_and_install_config: the temporary file, or <<>>
    backup_path,      \* the value move_with_timestamp returned, or <<>>
    err,              \* the step that raised, or "none"
    hist,             \* history: what the operation did, for the properties
    user_savedir,     \* weewx_install_lib.run: user_savedir, <<>> for None
    fresh,            \* weewx_install_lib.run: the files install_lib.run installs
    data_files,       \* weewx_install_data.run: self.data_files
    data_files0,      \* the manifest before the filter ran (history)
    last,             \* move_with_timestamp: record of the last call (history)
    cmd               \* weewx_install.run: the options of the install command

vars == <<fs, fs0, now, install_dir, dry_run, no_prompt, pc, dist_config_dict,
          config_dict, tmpfn, backup_path, err, hist, user_savedir, fresh,
          data_files, data_files0, last, cmd>>

----------------------------------------------------------------------------
(* Bounds of the model *)

\* the clock runs over 1..MaxTime
MaxTime == 2
\* version suffixes of the backups that exist before the operation: 1..MaxVersion
MaxVersion == 2
\* how many times move_with_timestamp is called in the mover's own specification
MaxCalls == 3

----------------------------------------------------------------------------
(* Paths *)

SEP == "/"

\* a.startswith(b)
StartsWith(a, b) ==
    /\ Len(b) <= Len(a)
    /\ SubSeq(a, 1, Len(b)) = b

\* path.split('/')
RECURSIVE SplitAcc(_, _, _)
SplitAcc(path, cur, acc) ==
    IF path = <<>> THEN Append(acc, cur)
    ELSE IF Head(path) = SEP
         THEN SplitAcc(Tail(path), <<>>, Append(acc, cur))
         ELSE SplitAcc(Tail(path), Append(cur, Head(path)), acc)

Split(path) == SplitAcc(path, <<>>, <<>>)

\* '/'.join(comps)
RECURSIVE JoinComps(_)
JoinComps(comps) ==
    IF comps = <<>> THEN <<>>
    ELSE IF Len(comps) = 1 THEN comps[1]
    ELSE comps[1] \o <<SEP>> \o JoinComps(Tail(comps))

\* posixpath.normpath: the count of leading slashes that is kept
InitialSlashes(path) ==
    IF path = <<>> \/ Head(path) # SEP THEN 0
    ELSE IF /\ Len(path) >= 2 /\ path[2] = SEP
            /\ ~(Len(path) >= 3 /\ path[3] = SEP)
         THEN 2
         ELSE 1

\* posixpath.normpath: the loop over the components
RECURSIVE NormComps(_, _, _)
NormComps(comps, new, initial) ==
    IF comps = <<>> THEN new
    ELSE LET comp == Head(comps)
             rest == Tail(comps)
         IN IF comp = <<>> \/ comp = <<".">>
            THEN NormComps(rest, new, initial)
            ELSE IF \/ comp # <<"..">>
                    \/ (initial = 0 /\ new = <<>>)
                    \/ (new # <<>> /\ new[Len(new)] = <<"..">>)
                 THEN NormComps(rest, Append(new, comp), initial)
                 ELSE IF new # <<>>
                      THEN NormComps(rest, SubSeq(new, 1, Len(new) - 1), initial)
                      ELSE NormComps(rest, new, initial)

\* os.path.normpath(path)
NormPath(path) ==
    IF path = <<>> THEN <<".">>
    ELSE LET initial == InitialSlashes(path)
             body    == JoinComps(NormComps(Split(path), <<>>, initial))
             slashes == IF initial = 2 THEN <<SEP, SEP>>
                        ELSE IF initial = 1 THEN <<SEP>> ELSE <<>>
             res     == slashes \o body
         IN IF res = <<>> THEN <<".">> ELSE res

\* os.path.join(a, b)
PathJoin(a, b) ==
    IF b # <<>> /\ Head(b) = SEP THEN b
    ELSE IF a = <<>> \/ a[Len(a)] = SEP THEN a \o b
    ELSE a \o <<SEP>> \o b

----------------------------------------------------------------------------
(* The filesystem *)

\* os.path.exists(p)
Exists(f, p) == NormPath(p) \in DOMAIN f

\* os.path.isfile(p): a regular file, whatever it holds
IsFile(f, p) == Exists(f, p) /\ f[NormPath(p)].kind # "dir"

\* the node at p is written (created or replaced)
Put(f, p, node) ==
    [q \in DOMAIN f \cup {NormPath(p)} |-> IF q = NormPath(p) THEN node ELSE f[q]]

\* os.unlink(p), os.remove(p)
Remove(f, p) == [q \in DOMAIN f \ {NormPath(p)} |-> f[q]]

\* shutil.move(src, dst) of an existing src to a dst that does not exist: a rename
Move(f, src, dst) == Put(Remove(f, src), dst, f[NormPath(src)])

FileNode(d) == [kind |-> "file", data |-> d]
DirNode(d)  == [kind |-> "dir", data |-> d]

----------------------------------------------------------------------------
(* move_with_timestamp *)

\* time.strftime(".%Y%m%d%H%M%S") at clock reading t
StrfTime(t) == <<".2020010100000" \o ToString(t)>>

\* '-' + str(version)
VersionSuffix(version) == <<"-", ToString(version)>>

\* the version number a mutated mover would pick: it stops at the first
\* suffix without looking whether that path exists
FirstVersionUnchecked(f, newpath, version) == version

\* the while loop of move_with_timestamp, entered with version
RECURSIVE VersionLoop(_, _, _)
VersionLoop(f, newpath, version) ==
    IF Exists(f, newpath \o VersionSuffix(version))
    THEN VersionLoop(f, newpath, version + 1)
    ELSE version

\* the path a mutated mover would move filepath to: the timestamp alone,
\* without a version suffix
NewPathUnversioned(f, filepath, t) == NormPath(filepath) \o StrfTime(t)

\* the path move_with_timestamp moves filepath to, at clock reading t
NewPath(f, filepath, t) ==
    LET newpath == NormPath(filepath) \o StrfTime(t)
    IN IF Exists(f, newpath)
       THEN newpath \o VersionSuffix(VersionLoop(f, newpath, 1))
       ELSE newpath

\* move_with_timestamp(filepath) at clock reading t, shutil.move succeeding:
\* the filesystem afterwards
MoveWithTimestamp(f, filepath, t) == Move(f, filepath, NewPath(f, filepath, t))

----------------------------------------------------------------------------
(* Inputs *)

ConfigName == <<"weewx.conf">>
UserRel    == <<"bin", SEP, "user">>

\* the installation directories the operations are run on
InstallDirs ==
    { <<SEP, "home">>,
      <<SEP, "home", SEP>>,
      <<SEP, "home", SEP, SEP, "weewx">>,
      <<"home", SEP, ".", SEP, "weewx">>,
      <<SEP, "home", SEP, "..", SEP, "opt">> }

\* the paths move_with_timestamp is called with in its own specification:
\* a file, and a directory given with a trailing '/'
MovePaths ==
    { PathJoin(<<SEP, "home">>, ConfigName),
      PathJoin(<<SEP, "home">>, UserRel) \o <<SEP>> }

OldData == [k \in {"A"} |-> "5"]

\* the node of a path that exists before the operation
OldNode(p) == IF StartsWith(p, NormPath(PathJoin(<<SEP, "home">>, UserRel)))
              THEN DirNode(OldData) ELSE FileNode(OldData)

\* the backups of base that exist beforehand: those of second t with the
\* version suffixes vs (0 stands for no suffix)
BackupNames(base, t, vs) ==
    { IF v = 0 THEN base \o StrfTime(t) ELSE base \o StrfTime(t) \o VersionSuffix(v)
      : v \in vs }

NoPath == <<>>
NoCall == [called |-> FALSE, returned |-> <<>>]

\* the operation is not run by the install command
NoCmd == [phase |-> "none", dry_run |-> FALSE, no_prompt |-> FALSE]

\* what the environment puts at p after n calls of move_with_timestamp: a new
\* file or directory whose content differs from every earlier one
RecreatedNode(p, n) ==
    [OldNode(p) EXCEPT !.data = [k \in {"A"} |-> ToString(n)]]

----------------------------------------------------------------------------
(* Specification of move_with_timestamp alone: SpecMove *)

InitMove ==
    /\ now = 1
    /\ \E base \in {NormPath(p) : p \in MovePaths}, t \in 1..MaxTime,
          vs \in SUBSET (0..MaxVersion) :
          fs = [q \in {NormPath(p) : p \in MovePaths} \cup BackupNames(base, t, vs)
                  |-> OldNode(q)]
    /\ fs0 = fs
    /\ last = NoCall
    /\ cmd = NoCmd
    /\ hist = 0
    /\ pc = "idle"
    /\ install_dir = NoPath /\ dry_run = FALSE /\ no_prompt = FALSE
    /\ dist_config_dict = <<>> /\ config_dict = <<>>
    /\ tmpfn = NoPath /\ backup_path = NoPath /\ err = "none"
    /\ user_savedir = NoPath /\ fresh = <<>>
    /\ data_files = <<>> /\ data_files0 = <<>>

\* the clock advances
Tick ==
    /\ now < MaxTime
    /\ now' = now + 1
    /\ UNCHANGED <<fs, fs0, install_dir, dry_run, no_prompt, pc, dist_config_dict,
                   config_dict, tmpfn, backup_path, err, hist, user_savedir, fresh,
                   data_files, data_files0, last, cmd>>

\* a call of move_with_timestamp(filepath); shutil.move raises when filepath
\* does not exist, and may raise for a cause of its own
MoveCall(filepath) ==
    /\ hist < MaxCalls
    /\ hist' = hist + 1
    /\ LET newpath == NewPath(fs, filepath, now)
       IN \/ /\ Exists(fs, filepath)
             /\ fs' = MoveWithTimestamp(fs, filepath, now)
             /\ last' = [called |-> TRUE, ok |-> TRUE, filepath |-> filepath,
                         t |-> now, before |-> fs, newpath |-> newpath,
                         after |-> fs',
                         returned |-> Append(last.returned,
                                             [filepath |-> filepath, t |-> now,
                                              newpath |-> newpath,
                                              existed |-> Exists(fs, newpath),
                                              node |-> fs[NormPath(filepath)]])]
          \/ /\ fs' = fs
             /\ last' = [called |-> TRUE, ok |-> FALSE, filepath |-> filepath,
                         t |-> now, before |-> fs, newpath |-> newpath,
                         after |-> fs, returned |-> last.returned]
    /\ UNCHANGED <<fs0, now, install_dir, dry_run, no_prompt, pc, dist_config_dict,
                   config_dict, tmpfn, backup_path, err, user_savedir, fresh,
                   data_files, data_files0, cmd>>

\* the environment puts a new file or directory where one was moved away
Recreate(filepath) ==
    /\ hist < MaxCalls
    /\ ~Exists(fs, filepath)
    /\ fs' = Put(fs, filepath, RecreatedNode(NormPath(filepath), hist))
    /\ UNCHANGED <<fs0, now, install_dir, dry_run, no_prompt, pc, dist_config_dict,
                   config_dict, tmpfn, backup_path, err, hist, user_savedir, fresh,
                   data_files, data_files0, last, cmd>>

NextMove ==
    \/ Tick
    \/ \E p \in MovePaths : MoveCall(p)
    \/ \E p \in MovePaths : Recreate(p)

SpecMove == InitMove /\ [][NextMove]_vars

\* C10: the path move_with_timestamp chooses is <path>.<timestamp> when that
\* does not exist, and otherwise <path>.<timestamp>-<n> with n the smallest
\* positive integer whose path does not exist; the chosen path does not exist
\* when it is chosen, and a successful move changes no other path.
C10_ChoosesSmallestFreeName ==
    last.called =>
        LET f    == last.before
            base == NormPath(last.filepath) \o StrfTime(last.t)
        IN /\ last.newpath \notin DOMAIN f
           /\ IF base \notin DOMAIN f
              THEN last.newpath = base
              ELSE \E n \in 1..(Cardinality(DOMAIN f) + 1) :
                      /\ last.newpath = base \o VersionSuffix(n)
                      /\ \A m \in 1..(n - 1) : base \o VersionSuffix(m) \in DOMAIN f
           /\ last.ok =>
                 /\ \A p \in DOMAIN f \ {NormPath(last.filepath)} :
                       p \in DOMAIN last.after /\ last.after[p] = f[p]
                 /\ last.after[last.newpath] = f[NormPath(last.filepath)]

\* C10 witness: a successful move that had to skip <path>.<timestamp> and
\* <path>.<timestamp>-1, of a path given with a trailing separator
C10_Witness ==
    /\ last.called /\ last.ok
    /\ last.filepath # NormPath(last.filepath)
    /\ last.newpath = NormPath(last.filepath) \o StrfTime(last.t) \o VersionSuffix(2)

\* C11: the paths returned by the successful calls of move_with_timestamp are
\* pairwise different, whatever the second they were made in; none of them
\* existed when it was chosen; and every backup made by an earlier call is
\* still on disk with the content that was moved there.
C11_BackupsUniqueAndKept ==
    LET r == last.returned
    IN \A i \in 1..Len(r) :
          /\ ~r[i].existed
          /\ \A j \in 1..Len(r) : j # i => r[j].newpath # r[i].newpath
          /\ r[i].newpath \in DOMAIN fs
          /\ fs[r[i].newpath] = r[i].node

\* C11 witness: three successful calls on the same path within one second,
\* the path put back with new content between them
C11_Witness ==
    LET r == last.returned
    IN /\ Len(r) = 3
       /\ \A i \in 1..3 : r[i].t = r[1].t /\ r[i].filepath = r[1].filepath
       /\ r[1].node # r[2].node /\ r[2].node # r[3].node

----------------------------------------------------------------------------
(* update_and_install_config *)

\* template_path = os.path.join(install_dir, config_name + ".template")
TemplatePath(dir) == PathJoin(dir, ConfigName \o <<".template">>)

\* install_path = os.path.join(install_dir, config_name)
InstallPath(dir) == PathJoin(dir, ConfigName)

\* the name tempfile.mkstemp() returns: a file that did not exist
TmpPath == <<SEP, "tmp", SEP, "tmpfile">>

ROOT == "WEEWX_ROOT"

\* weecfg.update_and_merge(config_dict, dist_config_dict): the user's value
\* for every key the user has, the template's value for the others
Merge(user, tmpl) ==
    [k \in DOMAIN user \cup DOMAIN tmpl |->
        IF k \in DOMAIN user THEN user[k] ELSE tmpl[k]]

\* weecfg.modify_config(config_dict, stn_info, DEBUG): the station info is
\* laid over the tree
ModifyConfig(cfg, stn_info) ==
    [k \in DOMAIN cfg \cup DOMAIN stn_info |->
        IF k \in DOMAIN stn_info THEN stn_info[k] ELSE cfg[k]]

\* the default station information
DefaultStnInfo ==
    [k \in {"station_type", "driver"} |->
        IF k = "station_type" THEN <<"Simulator">>
        ELSE <<"weewx.drivers.simulator">>]

\* what weecfg.prompt_for_info, prompt_for_driver and
\* prompt_for_driver_settings may return together
PromptedStnInfos ==
    { [k \in {"station_type", "driver"} |->
          IF k = "station_type" THEN <<"Vantage">> ELSE <<"weewx.drivers.vantage">>],
      [k \in {"station_type", "driver", "location"} |->
          IF k = "station_type" THEN <<"Simulator">>
          ELSE IF k = "driver" THEN <<"weewx.drivers.simulator">>
          ELSE <<"Hood River">>] }

\* a mutated stamp: it fills WEEWX_ROOT in only where the tree has none
StampIfMissing(cfg, dir) ==
    [k \in DOMAIN cfg \cup {ROOT} |->
        IF k \in DOMAIN cfg THEN cfg[k] ELSE NormPath(dir)]

\* config_dict['WEEWX_ROOT'] = os.path.normpath(install_dir)
Stamp(cfg, dir) ==
    [k \in DOMAIN cfg \cup {ROOT} |->
        IF k = ROOT THEN NormPath(dir) ELSE cfg[k]]

\* a mutated test for an old config file: an empty file does not count
HaveOldConfigNonEmpty(f, path) ==
    IsFile(f, path) /\ f[NormPath(path)].data # <<>>

\* "Do we have an old config file?": os.path.isfile(install_path)
HaveOldConfig(f, path) == IsFile(f, path)

\* a mutated test for the backup: dry_run is not looked at
ShouldBackupAlways(dry, f, path) == Exists(f, path)

\* a mutated test for the backup: only a regular file is saved
ShouldBackupIfFile(dry, f, path) == ~dry /\ IsFile(f, path)

\* a mutated test for the backup: nothing is ever saved
ShouldBackupNever(dry, f, path) == FALSE

\* "Save the old config file if it exists": not dry_run and
\* os.path.exists(install_path)
ShouldBackup(dry, f, path) == ~dry /\ Exists(f, path)

\* where an exception raised inside a mutated try block goes: no finally
OnExceptionNoFinally == "raised"

\* where an exception raised inside a mutated try block goes: it is passed
\* over and the install step is next
OnExceptionProceed == "install"

\* where an exception raised inside the try block goes: to the finally clause
OnException == "finally"

\* the distribution templates
Templates ==
    { [k \in {"A", "B", ROOT, "station_type"} |->
          IF k = "A" THEN <<"1">> ELSE IF k = "B" THEN <<"2">>
          ELSE IF k = ROOT THEN <<SEP, "tmpl">> ELSE <<"unspecified">>],
      [k \in {"A", "B"} |-> IF k = "A" THEN <<"1">> ELSE <<"2">>] }

\* the user's configurations; the first is an empty file
UserConfigs ==
    { <<>>,
      [k \in {"A"} |-> <<"5">>],
      [k \in {"A", ROOT, "C"} |->
          IF k = "A" THEN <<"5">> ELSE IF k = ROOT THEN <<SEP, "old">> ELSE <<"9">>],
      [k \in {"B", ROOT} |-> IF k = "B" THEN <<"7">> ELSE <<SEP, "home">>] }

\* a file the parser rejects, a file written only in part
GarbageNode == [kind |-> "garbage", data |-> <<>>]
PartialNode == [kind |-> "partial", data |-> <<>>]

\* the nodes that may be at the template path and at the install path
TemplateNodes == {FileNode(t) : t \in Templates} \cup {GarbageNode}
InstallNodes  == {FileNode(u) : u \in UserConfigs} \cup {GarbageNode, DirNode(<<>>)}

\* the backups of base that exist beforehand: none, or those of second t
\* with no suffix and the suffixes 1..n-1
OldBackups(base) ==
    {{}} \cup { BackupNames(base, t, 0..(n - 1)) : t \in 1..MaxTime, n \in 1..MaxVersion }

NoHist == [events |-> <<>>, path |-> "none", stn |-> <<>>, written |-> <<>>]

Happened(e) == \E i \in 1..Len(hist.events) : hist.events[i] = e

Before(e1, e2) ==
    \E i, j \in 1..Len(hist.events) :
        i < j /\ hist.events[i] = e1 /\ hist.events[j] = e2

Log(e) == [hist EXCEPT !.events = Append(@, e)]

InitConfig ==
    /\ now = 1
    /\ install_dir \in InstallDirs
    /\ dry_run \in BOOLEAN
    /\ no_prompt \in BOOLEAN
    /\ \E tn \in SUBSET TemplateNodes, cn \in SUBSET InstallNodes,
          bs \in OldBackups(NormPath(InstallPath(install_dir))) :
          /\ Cardinality(tn) <= 1 /\ Cardinality(cn) <= 1
          /\ fs = [q \in {NormPath(TemplatePath(install_dir)) : x \in tn}
                        \cup {NormPath(InstallPath(install_dir)) : x \in cn} \cup bs |->
                     IF q = NormPath(TemplatePath(install_dir))
                     THEN CHOOSE x \in tn : TRUE
                     ELSE IF q = NormPath(InstallPath(install_dir))
                     THEN CHOOSE x \in cn : TRUE
                     ELSE FileNode(OldData)]
    /\ fs0 = fs
    /\ pc = "start"
    /\ dist_config_dict = <<>> /\ config_dict = <<>>
    /\ tmpfn = NoPath /\ backup_path = NoPath /\ err = "none"
    /\ hist = NoHist
    /\ last = NoCall
    /\ cmd = NoCmd
    /\ user_savedir = NoPath /\ fresh = <<>>
    /\ data_files = <<>> /\ data_files0 = <<>>

ConfigFrame == <<fs0, now, install_dir, dry_run, no_prompt, user_savedir, fresh,
                 data_files, data_files0, last, cmd>>

\* a mutated parse of the template: a template that cannot be read or parsed
\* counts as an empty one and the run goes on
ParseTemplateNoExit ==
    /\ pc = "start"
    /\ dist_config_dict' =
          IF IsFile(fs, TemplatePath(install_dir))
             /\ fs[NormPath(TemplatePath(install_dir))].kind = "file"
          THEN fs[NormPath(TemplatePath(install_dir))].data
          ELSE <<>>
    /\ pc' = "check"
    /\ UNCHANGED <<fs, config_dict, tmpfn, backup_path, hist, err>>
    /\ UNCHANGED ConfigFrame

\* "Open up and parse the config file that came with the distribution";
\* IOError and SyntaxError end in sys.exit
ParseTemplate ==
    /\ pc = "start"
    /\ IF IsFile(fs, TemplatePath(install_dir))
          /\ fs[NormPath(TemplatePath(install_dir))].kind = "file"
       THEN /\ dist_config_dict' = fs[NormPath(TemplatePath(install_dir))].data
            /\ pc' = "check"
            /\ err' = err
       ELSE /\ dist_config_dict' = dist_config_dict
            /\ pc' = "raised"
            /\ err' = "template"
    /\ UNCHANGED <<fs, config_dict, tmpfn, backup_path, hist>>
    /\ UNCHANGED ConfigFrame

\* an old config file exists: read it and merge it with the template
ReadAndMerge ==
    /\ pc = "check"
    /\ HaveOldConfig(fs, InstallPath(install_dir))
    /\ IF fs[NormPath(InstallPath(install_dir))].kind = "file"
       THEN /\ config_dict' = Merge(fs[NormPath(InstallPath(install_dir))].data,
                                    dist_config_dict)
            /\ hist' = [hist EXCEPT !.path = "merge"]
            /\ pc' = "stamp"
            /\ err' = err
       ELSE /\ config_dict' = config_dict
            /\ hist' = hist
            /\ pc' = "raised"
            /\ err' = "read"
    /\ UNCHANGED <<fs, dist_config_dict, tmpfn, backup_path>>
    /\ UNCHANGED ConfigFrame

\* no old config file: the template with the station info, the default one
\* under no_prompt and the prompted one otherwise
FreshInstall ==
    /\ pc = "check"
    /\ ~HaveOldConfig(fs, InstallPath(install_dir))
    /\ \E stn_info \in (IF no_prompt THEN {DefaultStnInfo} ELSE PromptedStnInfos) :
          /\ config_dict' = ModifyConfig(dist_config_dict, stn_info)
          /\ hist' = [hist EXCEPT !.path = "fresh", !.stn = stn_info]
    /\ pc' = "stamp"
    /\ UNCHANGED <<fs, dist_config_dict, tmpfn, backup_path, err>>
    /\ UNCHANGED ConfigFrame

\* "Set the WEEWX_ROOT"
SetRoot ==
    /\ pc = "stamp"
    /\ config_dict' = Stamp(config_dict, install_dir)
    /\ pc' = "mkstemp"
    /\ UNCHANGED <<fs, dist_config_dict, tmpfn, backup_path, err, hist>>
    /\ UNCHANGED ConfigFrame

\* tmpfd, tmpfn = tempfile.mkstemp(): an empty file is created, or the call
\* raises (outside the try block)
MkStemp ==
    /\ pc = "mkstemp"
    /\ \/ /\ fs' = Put(fs, TmpPath, FileNode(<<>>))
          /\ tmpfn' = TmpPath
          /\ hist' = Log("mkstemp")
          /\ pc' = "write"
          /\ err' = err
       \/ /\ pc' = "raised"
          /\ err' = "mkstemp"
          /\ UNCHANGED <<fs, tmpfn, hist>>
    /\ UNCHANGED <<dist_config_dict, config_dict, backup_path>>
    /\ UNCHANGED ConfigFrame

\* os.close(tmpfd); config_dict.filename = tmpfn; config_dict.write().
\* A write that raises leaves the file empty or written in part.
WriteTmp ==
    /\ pc = "write"
    /\ \/ /\ fs' = Put(fs, tmpfn, FileNode(config_dict))
          /\ hist' = [Log("write") EXCEPT !.written = fs'[NormPath(tmpfn)].data]
          /\ pc' = "backup"
          /\ err' = err
       \/ /\ \E n \in {fs[NormPath(tmpfn)], PartialNode} : fs' = Put(fs, tmpfn, n)
          /\ hist' = hist
          /\ pc' = OnException
          /\ err' = "write"
    /\ UNCHANGED <<dist_config_dict, config_dict, tmpfn, backup_path>>
    /\ UNCHANGED ConfigFrame

\* "Save the old config file if it exists"; a move that raises moves nothing
Backup ==
    /\ pc = "backup"
    /\ IF ShouldBackup(dry_run, fs, InstallPath(install_dir))
       THEN \/ /\ fs' = MoveWithTimestamp(fs, InstallPath(install_dir), now)
               /\ backup_path' = NewPath(fs, InstallPath(install_dir), now)
               /\ hist' = Log("backup")
               /\ pc' = "install"
               /\ err' = err
            \/ /\ pc' = OnException
               /\ err' = "backup"
               /\ UNCHANGED <<fs, backup_path, hist>>
       ELSE /\ pc' = "install"
            /\ UNCHANGED <<fs, backup_path, hist, err>>
    /\ UNCHANGED <<dist_config_dict, config_dict, tmpfn>>
    /\ UNCHANGED ConfigFrame

\* "Now install the temporary file (holding the merged config data) into the
\* proper place": distutils.file_util.copy_file(tmpfn, install_path).  A copy
\* that raises leaves the destination as it was or written in part.
Install ==
    /\ pc = "install"
    /\ IF ~dry_run
       THEN \/ /\ fs' = Put(fs, InstallPath(install_dir), fs[NormPath(tmpfn)])
               /\ hist' = Log("install")
               /\ pc' = "unlink_template"
               /\ err' = err
            \/ /\ \/ fs' = fs
                  \/ fs' = Put(fs, InstallPath(install_dir), PartialNode)
               /\ hist' = hist
               /\ pc' = OnException
               /\ err' = "install"
       ELSE /\ pc' = "finally"
            /\ UNCHANGED <<fs, hist, err>>
    /\ UNCHANGED <<dist_config_dict, config_dict, tmpfn, backup_path>>
    /\ UNCHANGED ConfigFrame

\* "Remove the template": os.unlink(template_path), OSError is passed over
UnlinkTemplate ==
    /\ pc = "unlink_template"
    /\ \/ /\ fs' = Remove(fs, TemplatePath(install_dir))
          /\ hist' = Log("unlink_template")
       \/ /\ fs' = fs
          /\ hist' = hist
    /\ pc' = "finally"
    /\ UNCHANGED <<dist_config_dict, config_dict, tmpfn, backup_path, err>>
    /\ UNCHANGED ConfigFrame

\* finally: "Get rid of the temporary file": os.unlink(tmpfn); an OSError
\* of the unlink is raised to the caller
Finally ==
    /\ pc = "finally"
    /\ \/ /\ fs' = Remove(fs, tmpfn)
          /\ hist' = Log("unlink_tmp")
          /\ pc' = IF err = "none" THEN "done" ELSE "raised"
          /\ err' = err
       \/ /\ fs' = fs
          /\ hist' = Log("unlink_tmp_failed")
          /\ pc' = "raised"
          /\ err' = IF err = "none" THEN "unlink_tmp" ELSE err
    /\ UNCHANGED <<dist_config_dict, config_dict, tmpfn, backup_path>>
    /\ UNCHANGED ConfigFrame

NextConfig ==
    \/ Tick
    \/ ParseTemplate
    \/ ReadAndMerge
    \/ FreshInstall
    \/ SetRoot
    \/ MkStemp
    \/ WriteTmp
    \/ Backup
    \/ Install
    \/ UnlinkTemplate
    \/ Finally

SpecConfig == InitConfig /\ [][NextConfig]_vars

Returned == pc \in {"done", "raised"}

\* the node at the install path before the run, when it was a config file
OldConfigExisted ==
    /\ Exists(fs0, InstallPath(install_dir))
    /\ fs0[NormPath(InstallPath(install_dir))].kind = "file"

OldConfig == fs0[NormPath(InstallPath(install_dir))]

OldTemplate == fs0[NormPath(TemplatePath(install_dir))]

Count(e) == Cardinality({i \in 1..Len(hist.events) : hist.events[i] = e})

\* C1 (as claimed): in a run that is not a dry run over an existing
\* configuration, the install path holds, in every reachable state, either
\* the complete old configuration or the complete new one.
C1_DestinationAlwaysOldOrNew ==
    (~dry_run /\ OldConfigExisted) =>
        /\ Exists(fs, InstallPath(install_dir))
        /\ \/ fs[NormPath(InstallPath(install_dir))] = OldConfig
           \/ fs[NormPath(InstallPath(install_dir))] = FileNode(config_dict)

\* C2: a backup is made only if the run is not a dry run and something is at
\* the install path, and always then in a run that completes; it is made once
\* and before the install; a completed run that is not a dry run over an
\* existing configuration leaves the stamped merge at the install path, the
\* old content at the one new path, and the other paths as they were.
C2_BackupIffAndBeforeInstall ==
    LET ip == NormPath(InstallPath(install_dir))
        tp == NormPath(TemplatePath(install_dir))
    IN /\ Happened("backup") => (~dry_run /\ ip \in DOMAIN fs0)
       /\ pc = "done" => (Happened("backup") <=> (~dry_run /\ ip \in DOMAIN fs0))
       /\ Count("backup") <= 1
       /\ (Happened("install") /\ ip \in DOMAIN fs0) => Before("backup", "install")
       /\ (pc = "done" /\ ~dry_run /\ OldConfigExisted) =>
             /\ fs[ip] = FileNode(Stamp(Merge(OldConfig.data, OldTemplate.data),
                                        install_dir))
             /\ DOMAIN fs \ DOMAIN fs0 = {backup_path}
             /\ fs[backup_path] = OldConfig
             /\ \A p \in DOMAIN fs0 \ {ip, tp} : p \in DOMAIN fs /\ fs[p] = fs0[p]

\* C2 witness: a completed run over an existing configuration whose backup
\* needed a version suffix
C2_Witness ==
    /\ pc = "done" /\ ~dry_run /\ OldConfigExisted
    /\ Before("backup", "install")
    /\ backup_path = NormPath(InstallPath(install_dir)) \o StrfTime(now)
                        \o VersionSuffix(2)

\* C3: in a dry run every path that existed keeps its node, no path but the
\* temporary file is created, no backup, install or template removal happens,
\* and a completed run leaves the filesystem as it found it.
C3_DryRunChangesNothing ==
    dry_run =>
        /\ \A p \in DOMAIN fs0 : p \in DOMAIN fs /\ fs[p] = fs0[p]
        /\ DOMAIN fs \ DOMAIN fs0 \subseteq {TmpPath}
        /\ ~Happened("backup") /\ ~Happened("install")
        /\ ~Happened("unlink_template")
        /\ backup_path = NoPath
        /\ pc = "done" => fs = fs0

\* C3 witness: a completed dry run over an existing configuration, the
\* temporary file written and removed
C3_Witness ==
    /\ dry_run /\ pc = "done" /\ OldConfigExisted
    /\ Before("write", "unlink_tmp")

C9_RootEqualsInstallDir ==
    Happened("write") =>
        /\ ROOT \in DOMAIN hist.written
        /\ hist.written[ROOT] = install_dir

\* C9 (amended): on both paths the written configuration's WEEWX_ROOT, and
\* that of the installed file, is the normalised install_dir, whatever the
\* user's configuration and the template hold.
C9_RootEqualsNormalisedInstallDir ==
    /\ Happened("write") =>
          /\ ROOT \in DOMAIN hist.written
          /\ hist.written[ROOT] = NormPath(install_dir)
    /\ Happened("install") =>
          fs[NormPath(InstallPath(install_dir))].data[ROOT] = NormPath(install_dir)

\* C9 witness: a merge in which the user's configuration names another root
\* and install_dir is not in normal form
C9_Witness ==
    /\ Happened("install") /\ hist.path = "merge"
    /\ ROOT \in DOMAIN OldConfig.data
    /\ OldConfig.data[ROOT] # NormPath(install_dir)
    /\ install_dir # NormPath(install_dir)
    /\ hist.written[ROOT] = NormPath(install_dir)

\* C12: when the backup of the existing destination fails, the run does not
\* go on to the install step: the copy to the install path and the removal of
\* the template never happen, the install path and the template stay as they
\* were before the run, no backup path is recorded, and the run ends raising.
C12_BackupFailureAbortsBeforeInstall ==
    LET ip == NormPath(InstallPath(install_dir))
        tp == NormPath(TemplatePath(install_dir))
    IN err = "backup" =>
          /\ ~Happened("backup") /\ ~Happened("install")
          /\ ~Happened("unlink_template")
          /\ backup_path = NoPath
          /\ ip \in DOMAIN fs /\ fs[ip] = fs0[ip]
          /\ tp \in DOMAIN fs /\ fs[tp] = fs0[tp]
          /\ pc \in {"finally", "raised"}

\* C12 witness: a run over an existing configuration has ended by the failure
\* of its backup, the temporary file removed
C12_Witness ==
    /\ pc = "raised" /\ err = "backup"
    /\ OldConfigExisted
    /\ Happened("write") /\ Happened("unlink_tmp")

\* C14: when the template is missing or cannot be parsed, or the existing
\* configuration file cannot be parsed, the run changes nothing at any time:
\* no temporary file is made, no backup, no copy, no removal, and it ends
\* raising.
C14_ReadFailureChangesNothing ==
    LET ip == NormPath(InstallPath(install_dir))
        tp == NormPath(TemplatePath(install_dir))
        badTemplate == tp \notin DOMAIN fs0 \/ fs0[tp].kind # "file"
        badConfig   == ip \in DOMAIN fs0 /\ fs0[ip].kind \notin {"file", "dir"}
    IN /\ (badTemplate \/ badConfig) =>
             /\ fs = fs0
             /\ hist.events = <<>>
             /\ tmpfn = NoPath /\ backup_path = NoPath
             /\ pc \in {"start", "check", "raised"}
             /\ pc = "raised" => err \in {"template", "read"}
       /\ err \in {"template", "read"} => (badTemplate \/ badConfig) /\ pc = "raised"

\* C14 witness: a run stopped at a template that is missing while a
\* configuration exists
C14_Witness ==
    /\ pc = "raised" /\ err = "template"
    /\ ~Exists(fs0, TemplatePath(install_dir))
    /\ OldConfigExisted

\* C17 (as claimed): once the copy to the install path has succeeded, no later
\* error stops the run: it returns normally, the new configuration in place.
C17_NoAbortAfterInstall ==
    (Happened("install") /\ Returned) =>
        /\ pc = "done"
        /\ fs[NormPath(InstallPath(install_dir))] = FileNode(config_dict)

\* C19: whatever was at the install path before the run is, in every state of
\* the run, dry or not and whichever step failed, either still at the install
\* path or at the backup path this run has made, a path that did not exist
\* before.
C19_PriorConfigNeverLost ==
    LET ip == NormPath(InstallPath(install_dir))
    IN ip \in DOMAIN fs0 =>
          \/ ip \in DOMAIN fs /\ fs[ip] = fs0[ip]
          \/ /\ backup_path # NoPath
             /\ backup_path \notin DOMAIN fs0
             /\ backup_path \in DOMAIN fs
             /\ fs[backup_path] = fs0[ip]

\* C19 witness: the copy to the install path failed leaving it written in
\* part; the old configuration is at the backup path only
C19_Witness ==
    /\ pc = "raised" /\ err = "install"
    /\ OldConfigExisted /\ OldConfig.data # <<>>
    /\ Exists(fs, InstallPath(install_dir))
    /\ fs[NormPath(InstallPath(install_dir))] = PartialNode
    /\ backup_path # NoPath /\ fs[backup_path] = OldConfig

----------------------------------------------------------------------------
(* weewx_install_lib.run *)

\* user_dir = os.path.join(self.install_dir, 'bin/user')
UserDir(dir) == PathJoin(dir, UserRel)

\* the install directories of the library
LibDirs == { <<SEP, "home">>, <<SEP, "home", SEP>> }

\* the names of the files of a user directory, and what they hold: the
\* user's files hold X, the files of the distribution hold D
UserFileNames  == {"custom.py", "extensions.py", "schemas.py", "schemas.pyc",
                   "schemas.py.old"}
FreshFileNames == {"extensions.py", "default.py", "schemas.py"}

UserFiles(names)  == [n \in names |-> <<"X">>]
FreshFiles(names) == [n \in names |-> <<"D">>]

\* a mutated copy of one file: a file that exists in dst is kept
CopyOneIfAbsent(dst, src, name) ==
    [n \in DOMAIN dst \cup {name} |-> IF n \in DOMAIN dst THEN dst[n] ELSE src[n]]

\* distutils.dir_util.copy_tree copies one file of src into dst, over a
\* file of the same name
CopyOne(dst, src, name) ==
    [n \in DOMAIN dst \cup {name} |-> IF n = name THEN src[n] ELSE dst[n]]

\* os.rename(old, new) inside a directory, old existing: new is replaced
RenameIn(files, old, new) ==
    [n \in (DOMAIN files \ {old}) \cup {new} |-> IF n = new THEN files[old] ELSE files[n]]

\* os.remove(name) inside a directory
RemoveIn(files, name) == [n \in DOMAIN files \ {name} |-> files[n]]

NoLibHist == [events |-> <<>>, copied |-> {}]

InitLib ==
    /\ now \in 1..MaxTime
    /\ install_dir \in LibDirs
    /\ fresh \in {FreshFiles(ns) : ns \in SUBSET FreshFileNames}
    /\ \E un \in {{}} \cup {{DirNode(UserFiles(ns))} : ns \in SUBSET UserFileNames},
          bs \in OldBackups(NormPath(UserDir(install_dir))) :
          fs = [q \in {NormPath(UserDir(install_dir)) : x \in un} \cup bs |->
                  IF q = NormPath(UserDir(install_dir))
                  THEN CHOOSE x \in un : TRUE
                  ELSE DirNode(OldData)]
    /\ fs0 = fs
    /\ pc = "start"
    /\ user_savedir = NoPath
    /\ err = "none"
    /\ hist = NoLibHist
    /\ dry_run = FALSE /\ no_prompt = FALSE
    /\ dist_config_dict = <<>> /\ config_dict = <<>>
    /\ tmpfn = NoPath /\ backup_path = NoPath
    /\ last = NoCall
    /\ cmd = NoCmd
    /\ data_files = <<>> /\ data_files0 = <<>>

LibFrame == <<fs0, now, install_dir, dry_run, no_prompt, dist_config_dict,
              config_dict, tmpfn, backup_path, fresh, data_files, data_files0,
              last, cmd>>

\* the files of the user directory, none when it does not exist
UserDirData(f, dir) ==
    IF Exists(f, UserDir(dir)) THEN f[NormPath(UserDir(dir))].data ELSE <<>>

\* "Location of the user subdirectory, if it exists": it is saved under a
\* timestamp, or user_savedir is None; a move that raises moves nothing
Snapshot ==
    /\ pc = "start"
    /\ IF Exists(fs, UserDir(install_dir))
       THEN \/ /\ fs' = MoveWithTimestamp(fs, UserDir(install_dir), now)
               /\ user_savedir' = NewPath(fs, UserDir(install_dir), now)
               /\ hist' = Log("snapshot")
               /\ pc' = "install_lib"
               /\ err' = err
            \/ /\ pc' = "raised"
               /\ err' = "snapshot"
               /\ UNCHANGED <<fs, user_savedir, hist>>
       ELSE /\ user_savedir' = NoPath
            /\ pc' = "install_lib"
            /\ UNCHANGED <<fs, hist, err>>
    /\ UNCHANGED LibFrame

\* install_lib.run(self): "This will install all incoming files, including a
\* new user subdirectory"; a run that raises has installed some of them.
\* The superclass honours self.dry_run and then installs nothing.
InstallLib ==
    /\ pc = "install_lib"
    /\ \/ /\ fs' = IF dry_run THEN fs
                   ELSE Put(fs, UserDir(install_dir), DirNode(fresh))
          /\ hist' = Log("install_lib")
          /\ pc' = IF user_savedir # NoPath THEN "copy_tree" ELSE "done"
          /\ err' = err
       \/ /\ \E ns \in SUBSET DOMAIN fresh :
                /\ ns # DOMAIN fresh
                /\ fs' = IF dry_run THEN fs
                         ELSE Put(fs, UserDir(install_dir),
                                  DirNode([n \in ns |-> fresh[n]]))
          /\ hist' = hist
          /\ pc' = "raised"
          /\ err' = "install_lib"
    /\ UNCHANGED user_savedir
    /\ UNCHANGED LibFrame

\* a mutated restore: one file is moved out of the saved directory into the
\* user directory
CopyTreeStepMoving ==
    /\ pc = "copy_tree"
    /\ \E name \in DOMAIN fs[user_savedir].data :
          fs' = Put(Put(fs, UserDir(install_dir),
                        DirNode(CopyOne(fs[NormPath(UserDir(install_dir))].data,
                                        fs[user_savedir].data, name))),
                    user_savedir, DirNode(RemoveIn(fs[user_savedir].data, name)))
    /\ UNCHANGED <<pc, err, hist, user_savedir>>
    /\ UNCHANGED LibFrame

\* distutils.dir_util.copy_tree(user_savedir, user_dir), one file at a time
\* in the order of os.listdir; a copy that raises ends the run.  copy_tree
\* makes user_dir when it does not exist.
CopyTreeStep ==
    /\ pc = "copy_tree"
    /\ \E name \in DOMAIN fs[user_savedir].data \ hist.copied :
          \/ /\ fs' = Put(fs, UserDir(install_dir),
                          DirNode(CopyOne(UserDirData(fs, install_dir),
                                          fs[user_savedir].data, name)))
             /\ hist' = [hist EXCEPT !.copied = @ \cup {name}]
             /\ pc' = pc
             /\ err' = err
          \/ /\ pc' = "raised"
             /\ err' = "copy_tree"
             /\ UNCHANGED <<fs, hist>>
    /\ UNCHANGED user_savedir
    /\ UNCHANGED LibFrame

\* a mutated end of the restore: the saved directory is removed
CopyTreeReturnDiscarding ==
    /\ pc = "copy_tree"
    /\ hist.copied = DOMAIN fs[user_savedir].data
    /\ fs' = Remove(fs, user_savedir)
    /\ hist' = Log("copy_tree")
    /\ pc' = "rename"
    /\ UNCHANGED <<user_savedir, err>>
    /\ UNCHANGED LibFrame

\* copy_tree returns when every file of the saved directory is copied; it
\* has made user_dir, if only an empty one
CopyTreeReturn ==
    /\ pc = "copy_tree"
    /\ hist.copied = DOMAIN fs[user_savedir].data
    /\ fs' = Put(fs, UserDir(install_dir), DirNode(UserDirData(fs, install_dir)))
    /\ hist' = Log("copy_tree")
    /\ pc' = "rename"
    /\ UNCHANGED <<user_savedir, err>>
    /\ UNCHANGED LibFrame

\* os.rename(user_dir/schemas.py, user_dir/schemas.py.old); OSError (no such
\* file, or a platform or permission that refuses the rename) is passed over
RenameSchemas ==
    /\ pc = "rename"
    /\ LET files == fs[NormPath(UserDir(install_dir))].data
       IN \/ /\ "schemas.py" \in DOMAIN files
             /\ fs' = Put(fs, UserDir(install_dir),
                          DirNode(RenameIn(files, "schemas.py", "schemas.py.old")))
             /\ hist' = Log("rename")
          \/ /\ fs' = fs
             /\ hist' = hist
    /\ pc' = "remove"
    /\ UNCHANGED <<user_savedir, err>>
    /\ UNCHANGED LibFrame

\* os.remove(user_dir/schemas.pyc); OSError is passed over
RemoveSchemasPyc ==
    /\ pc = "remove"
    /\ LET files == fs[NormPath(UserDir(install_dir))].data
       IN \/ /\ "schemas.pyc" \in DOMAIN files
             /\ fs' = Put(fs, UserDir(install_dir),
                          DirNode(RemoveIn(files, "schemas.pyc")))
             /\ hist' = Log("remove")
          \/ /\ fs' = fs
             /\ hist' = hist
    /\ pc' = "done"
    /\ UNCHANGED <<user_savedir, err>>
    /\ UNCHANGED LibFrame

NextLib ==
    \/ Snapshot
    \/ InstallLib
    \/ CopyTreeStep
    \/ CopyTreeReturn
    \/ RenameSchemas
    \/ RemoveSchemasPyc

SpecLib == InitLib /\ [][NextLib]_vars

\* the user directory existed before the upgrade
UserDirExisted == Exists(fs0, UserDir(install_dir))

\* its files before the upgrade, and its files now
OldUserFiles == fs0[NormPath(UserDir(install_dir))].data
UserFilesNow == fs[NormPath(UserDir(install_dir))].data

\* the names the restore treats as legacy files
LegacyNames == {"schemas.py", "schemas.pyc", "schemas.py.old"}

\* C5 (as claimed): after snapshot, replacement and restore the user
\* directory holds every file it held before with the same content, and every
\* freshly installed file that has no counterpart among them, untouched.
C5_EveryUserFileRestored ==
    (pc = "done" /\ UserDirExisted) =>
        /\ \A n \in DOMAIN OldUserFiles :
              n \in DOMAIN UserFilesNow /\ UserFilesNow[n] = OldUserFiles[n]
        /\ \A n \in DOMAIN fresh \ DOMAIN OldUserFiles :
              n \in DOMAIN UserFilesNow /\ UserFilesNow[n] = fresh[n]

\* C5 (amended): the same for every file but the legacy names; schemas.py is
\* either still there with its content or gone with its content under
\* schemas.py.old, which otherwise is as restored; schemas.pyc is either as
\* restored or gone.
C5_UserFilesRestoredExceptLegacy ==
    (pc = "done" /\ UserDirExisted) =>
        LET old      == OldUserFiles
            cur      == UserFilesNow
            restored == [n \in DOMAIN old \cup DOMAIN fresh |->
                            IF n \in DOMAIN old THEN old[n] ELSE fresh[n]]
        IN /\ DOMAIN cur \ LegacyNames = DOMAIN restored \ LegacyNames
           /\ \A n \in DOMAIN old \ LegacyNames : cur[n] = old[n]
           /\ \A n \in (DOMAIN fresh \ DOMAIN old) \ LegacyNames : cur[n] = fresh[n]
           /\ IF "schemas.py" \in DOMAIN cur
              THEN /\ "schemas.py" \in DOMAIN restored
                   /\ cur["schemas.py"] = restored["schemas.py"]
                   /\ "schemas.py.old" \in DOMAIN cur <=> "schemas.py.old" \in DOMAIN restored
                   /\ "schemas.py.old" \in DOMAIN cur =>
                         cur["schemas.py.old"] = restored["schemas.py.old"]
              ELSE IF "schemas.py" \in DOMAIN restored
                   THEN /\ "schemas.py.old" \in DOMAIN cur
                        /\ cur["schemas.py.old"] = restored["schemas.py"]
                   ELSE /\ "schemas.py.old" \in DOMAIN cur <=> "schemas.py.old" \in DOMAIN restored
                        /\ "schemas.py.old" \in DOMAIN cur =>
                              cur["schemas.py.old"] = restored["schemas.py.old"]
           /\ "schemas.pyc" \in DOMAIN cur =>
                 /\ "schemas.pyc" \in DOMAIN restored
                 /\ cur["schemas.pyc"] = restored["schemas.pyc"]

\* C5 witness: custom.py (X) and the user's extensions.py are back, over a
\* fresh extensions.py, beside the fresh default.py
C5_Witness ==
    /\ pc = "done" /\ UserDirExisted
    /\ {"custom.py", "extensions.py"} \subseteq DOMAIN OldUserFiles
    /\ {"default.py", "extensions.py"} \subseteq DOMAIN fresh
    /\ UserFilesNow["custom.py"] = <<"X">>
    /\ UserFilesNow["extensions.py"] = <<"X">>
    /\ UserFilesNow["default.py"] = <<"D">>

\* C15 (as claimed): the snapshot comes before the bulk replacement and the
\* restore after it; without a user directory there is neither a snapshot nor
\* a restore; and a run that has taken a snapshot does not return before the
\* restore is done, the user's files (the legacy names aside) back in the
\* user directory.
C15_SnapshotAlwaysRestored ==
    LET ud == NormPath(UserDir(install_dir))
    IN /\ (Happened("install_lib") /\ UserDirExisted) => Before("snapshot", "install_lib")
       /\ Happened("copy_tree") =>
             Before("snapshot", "install_lib") /\ Before("install_lib", "copy_tree")
       /\ ~UserDirExisted =>
             ~Happened("snapshot") /\ ~Happened("copy_tree") /\ user_savedir = NoPath
       /\ (pc \in {"done", "raised"} /\ Happened("snapshot")) =>
             /\ Happened("copy_tree")
             /\ ud \in DOMAIN fs
             /\ \A n \in DOMAIN OldUserFiles \ LegacyNames :
                   n \in DOMAIN fs[ud].data /\ fs[ud].data[n] = OldUserFiles[n]

\* C16 (as claimed): a completed run that took a snapshot leaves nothing at
\* the snapshot path.
C16_SnapshotDiscarded ==
    (pc = "done" /\ Happened("snapshot")) => user_savedir \notin DOMAIN fs

\* C16 (amended): a completed run over an existing user directory leaves the
\* snapshot where it was made, a path that did not exist before the run, with
\* the whole user directory of before the run in it.
C16_SnapshotKept ==
    (pc = "done" /\ UserDirExisted) =>
        /\ Happened("snapshot") /\ Happened("copy_tree")
        /\ user_savedir # NoPath
        /\ user_savedir \notin DOMAIN fs0
        /\ user_savedir \in DOMAIN fs
        /\ fs[user_savedir] = fs0[NormPath(UserDir(install_dir))]

\* C16 witness: a completed run that has restored two user files, the
\* snapshot made beside a backup of the same second
C16_Witness ==
    /\ pc = "done" /\ Happened("copy_tree")
    /\ {"custom.py", "extensions.py"} \subseteq DOMAIN fs[user_savedir].data
    /\ user_savedir = NormPath(UserDir(install_dir)) \o StrfTime(now) \o VersionSuffix(1)

\* C20: every file the user directory held before the upgrade is, in every
\* state of the run, with the same content in the user directory or in the
\* directory the snapshot was moved to.
C20_UserFilesNeverLost ==
    LET ud == NormPath(UserDir(install_dir))
    IN UserDirExisted =>
          \A n \in DOMAIN OldUserFiles :
              \/ /\ ud \in DOMAIN fs
                 /\ n \in DOMAIN fs[ud].data
                 /\ fs[ud].data[n] = OldUserFiles[n]
              \/ /\ user_savedir # NoPath
                 /\ user_savedir \in DOMAIN fs
                 /\ n \in DOMAIN fs[user_savedir].data
                 /\ fs[user_savedir].data[n] = OldUserFiles[n]

\* C20 witness: after the legacy files were dealt with, the user's schemas.py
\* and schemas.pyc are no longer in the user directory and the user's
\* schemas.py.old was replaced
C20_Witness ==
    /\ pc = "done" /\ Happened("rename") /\ Happened("remove")
    /\ {"schemas.py", "schemas.pyc", "schemas.py.old"} \subseteq DOMAIN OldUserFiles
    /\ "schemas.py" \notin DOMAIN UserFilesNow
    /\ "schemas.pyc" \notin DOMAIN UserFilesNow

----------------------------------------------------------------------------
(* weewx_install_data.run *)

SKINS == "skins"

\* the skin names of the for loop, in its order
SkinNames == <<"Ftp", "Mobile", "Rsync", "Seasons", "Smartphone", "Standard">>

\* rel_name = 'skins/' + skin_name
RelName(skin_name) == <<SKINS, SEP>> \o <<skin_name>>

\* [dat for dat in self.data_files if dat[0].startswith(rel_name)]
EntriesOf(df, rel_name) == SelectSeq(df, LAMBDA dat : StartsWith(dat[1], rel_name))

\* "The skin has not already been installed":
\* not os.path.exists(os.path.join(self.install_dir, rel_name))
SkinMissing(f, dir, skin_name) == ~Exists(f, PathJoin(dir, RelName(skin_name)))

\* the for loop over the skin names from the i-th on: install_files
RECURSIVE InstallFiles(_, _, _, _)
InstallFiles(df, f, dir, i) ==
    IF i > Len(SkinNames) THEN <<>>
    ELSE (IF SkinMissing(f, dir, SkinNames[i])
          THEN EntriesOf(df, RelName(SkinNames[i]))
          ELSE <<>>) \o InstallFiles(df, f, dir, i + 1)

\* other_files = [dat for dat in self.data_files if not dat[0].startswith('skins')]
OtherFiles(df) == SelectSeq(df, LAMBDA dat : ~StartsWith(dat[1], <<SKINS>>))

\* self.data_files after the filter of weewx_install_data.run
FilterDataFiles(df, f, dir) ==
    IF Exists(f, PathJoin(dir, <<SKINS>>))
    THEN OtherFiles(df) \o InstallFiles(df, f, dir, 1)
    ELSE df

\* the entries (directory, files) a manifest may hold, in the order of
\* setup.py's data_files: '' first, then find_files('skins'), find_files('util')
ManifestUniverse ==
    << <<<<>>, <<"LICENSE.txt", "weewx.conf">>>>,
       <<<<SKINS>>, <<"readme">>>>,
       <<<<SKINS, SEP, "Belchertown">>, <<"skin.conf">>>>,
       <<<<SKINS, SEP, "Seasons">>, <<"skin.conf">>>>,
       <<<<SKINS, SEP, "Seasons", SEP, "font">>, <<"font.ttf">>>>,
       <<<<SKINS, SEP, "Seasons", "Dark">>, <<"skin.conf">>>>,
       <<<<SKINS, SEP, "Standard">>, <<"skin.conf">>>>,
       <<<<"util">>, <<"logrotate">>>> >>

\* the manifest made of the entries of ManifestUniverse with indices in ix
RECURSIVE ManifestFrom(_, _)
ManifestFrom(ix, i) ==
    IF i > Len(ManifestUniverse) THEN <<>>
    ELSE (IF i \in ix THEN <<ManifestUniverse[i]>> ELSE <<>>) \o ManifestFrom(ix, i + 1)

\* the skins that may be installed before the run: their directory names
OldSkinDirs ==
    { <<"Belchertown">>, <<"Seasons">>, <<"Seasons", "Dark">>, <<"Standard">> }

DataDir == <<SEP, "home">>

\* a path and the directories above it, as distutils' mkpath creates them
Ancestors(p) ==
    {p} \cup { SubSeq(p, 1, i - 1) : i \in {j \in 2..Len(p) : p[j] = SEP} }

\* mkpath(d): d and the missing directories above it are created
MkPath(f, d) ==
    [q \in DOMAIN f \cup {NormPath(a) : a \in Ancestors(d)} |->
        IF q \in DOMAIN f THEN f[q] ELSE DirNode(<<>>)]

\* weewx_install_data.copy_file(f, install_dir) for the files of one entry:
\* weewx.conf goes to process_config_file, which installs it under the
\* template name; the others are copied into the directory
RECURSIVE CopyFiles(_, _, _)
CopyFiles(f, d, files) ==
    IF files = <<>> THEN f
    ELSE LET name == Head(files)
             g    == IF name = "weewx.conf"
                     THEN Put(f, PathJoin(d, <<name>>) \o <<".template">>,
                              FileNode([k \in {"A"} |-> <<"1">>]))
                     ELSE Put(f, d, DirNode(CopyOne(f[NormPath(d)].data,
                                                    FreshFiles({name}), name)))
         IN CopyFiles(g, d, Tail(files))

NoDataHist == [events |-> <<>>, next |-> 1]

InitData ==
    /\ now = 1
    /\ install_dir = DataDir
    /\ dry_run \in BOOLEAN
    /\ \E ix \in SUBSET (1..Len(ManifestUniverse)) : data_files = ManifestFrom(ix, 1)
    /\ data_files0 = data_files
    /\ \E skins \in BOOLEAN, gs \in SUBSET OldSkinDirs :
          /\ ~skins => gs = {}
          /\ fs = [q \in {NormPath(PathJoin(install_dir, <<SKINS>>)) : x \in {skins} \ {FALSE}}
                        \cup {NormPath(PathJoin(install_dir, <<SKINS, SEP>> \o g)) : g \in gs} |->
                     DirNode(OldData)]
    /\ fs0 = fs
    /\ pc = "start"
    /\ err = "none"
    /\ hist = NoDataHist
    /\ no_prompt = FALSE
    /\ dist_config_dict = <<>> /\ config_dict = <<>>
    /\ tmpfn = NoPath /\ backup_path = NoPath
    /\ user_savedir = NoPath /\ fresh = <<>>
    /\ last = NoCall
    /\ cmd = NoCmd

DataFrame == <<fs0, now, install_dir, dry_run, no_prompt, dist_config_dict,
               config_dict, tmpfn, backup_path, err, user_savedir, fresh,
               data_files0, last, cmd>>

\* "If there is a skins directory already, just install what the user
\* doesn't already have": self.data_files is filtered
FilterSkins ==
    /\ pc = "start"
    /\ data_files' = FilterDataFiles(data_files, fs, install_dir)
    /\ hist' = Log("filter")
    /\ pc' = "copy"
    /\ UNCHANGED fs
    /\ UNCHANGED DataFrame

\* install_data.run(self): the next entry of self.data_files is installed,
\* its directory made and its files copied; nothing is written in a dry run
CopyEntry ==
    /\ pc = "copy"
    /\ hist.next <= Len(data_files)
    /\ LET dat == data_files[hist.next]
           d   == PathJoin(install_dir, dat[1])
       IN fs' = IF dry_run THEN fs ELSE CopyFiles(MkPath(fs, d), d, dat[2])
    /\ hist' = [hist EXCEPT !.next = @ + 1]
    /\ UNCHANGED <<pc, data_files>>
    /\ UNCHANGED DataFrame

\* install_data.run returns after the last entry
CopyReturn ==
    /\ pc = "copy"
    /\ hist.next > Len(data_files)
    /\ pc' = "done"
    /\ UNCHANGED <<fs, data_files, hist>>
    /\ UNCHANGED DataFrame

NextData ==
    \/ FilterSkins
    \/ CopyEntry
    \/ CopyReturn

SpecData == InitData /\ [][NextData]_vars

\* the entries of a manifest, as a set
EntrySet(df) == {df[i] : i \in 1..Len(df)}

\* an entry is under the skins category
UnderSkins(dat) == Split(dat[1])[1] = <<SKINS>>

\* the group an entry under the skins category belongs to: the name of the
\* directory below skins, or <<>> for the skins directory itself
GroupOf(dat) == IF Len(Split(dat[1])) >= 2 THEN Split(dat[1])[2] ELSE <<>>

\* the groups the manifest refers to
Groups(df) == {GroupOf(dat) : dat \in {e \in EntrySet(df) : UnderSkins(e)}} \ {<<>>}

\* group g was installed before the run
GroupExisted(g) == Exists(fs0, PathJoin(install_dir, <<SKINS, SEP>> \o g))

\* C6 (as claimed): once the filter has run, and while the files are copied,
\* no entry of a group whose directory existed before the run is in the
\* filtered manifest, and every group is in it with all its entries or with
\* none.
C6_ExistingGroupsExcluded ==
    pc # "start" =>
        \A g \in Groups(data_files0) :
            LET mine == {e \in EntrySet(data_files0) : UnderSkins(e) /\ GroupOf(e) = g}
            IN /\ GroupExisted(g) => mine \cap EntrySet(data_files) = {}
               /\ \/ mine \cap EntrySet(data_files) = {}
                  \/ mine \subseteq EntrySet(data_files)

\* C7 (as claimed): once the filter has run, every entry of another category,
\* and every entry of a skins group whose directory did not exist before the
\* run, is in the filtered manifest.
C7_NothingElseDropped ==
    pc # "start" =>
        \A e \in EntrySet(data_files0) :
            (\/ ~UnderSkins(e)
             \/ (GroupOf(e) # <<>> /\ ~GroupExisted(GroupOf(e))))
                => e \in EntrySet(data_files)

\* the filter applied to its own output gives that output again
FilterIsIdempotent ==
    FilterDataFiles(FilterDataFiles(data_files0, fs0, install_dir), fs0, install_dir)
        = FilterDataFiles(data_files0, fs0, install_dir)

\* C13 (as claimed): for a manifest with two skins groups P and Q, P installed
\* before the run and Q not, the filtered manifest holds of the groups'
\* entries exactly those of Q; and the filter applied again, to the manifest
\* or to its own output, against the destination as it was gives the same
\* filtered manifest.
C13_FilterYieldsMissingGroupAndIsIdempotent ==
    pc # "start" =>
        /\ \A P, Q \in Groups(data_files0) :
              (Groups(data_files0) = {P, Q} /\ GroupExisted(P) /\ ~GroupExisted(Q)) =>
                  {e \in EntrySet(data_files) : UnderSkins(e) /\ GroupOf(e) # <<>>}
                      = {e \in EntrySet(data_files0) : UnderSkins(e) /\ GroupOf(e) = Q}
        /\ data_files = FilterDataFiles(data_files0, fs0, install_dir)
        /\ FilterIsIdempotent

----------------------------------------------------------------------------
(* weewx_install.run: install.run, which runs install_lib and install_data, *)
(* and then the post-install update_and_install_config                      *)

\* the value of update_and_install_config's parameter dry_run when the call
\* does not pass it
DefaultDryRun == FALSE

InstallDir == <<SEP, "home">>

\* what may be on disk under the installation directory before the install
\* command runs: a user directory, a configuration file, a template left
\* there, a skins directory
InstallNodesBefore ==
    { <<NormPath(UserDir(InstallDir)), DirNode(UserFiles({"custom.py", "schemas.py"}))>>,
      <<NormPath(InstallPath(InstallDir)), FileNode([k \in {"A"} |-> <<"5">>])>>,
      <<NormPath(TemplatePath(InstallDir)),
        FileNode([k \in {"A", "B"} |-> IF k = "A" THEN <<"1">> ELSE <<"2">>])>>,
      <<NormPath(PathJoin(InstallDir, <<SKINS>>)), DirNode(OldData)>> }

InitInstall ==
    /\ now = 1
    /\ install_dir = InstallDir
    /\ cmd \in [phase : {"lib"}, dry_run : BOOLEAN, no_prompt : BOOLEAN]
    /\ dry_run = cmd.dry_run
    /\ no_prompt = cmd.no_prompt
    /\ \E ns \in SUBSET InstallNodesBefore :
          fs = [q \in {n[1] : n \in ns} |-> (CHOOSE n \in ns : n[1] = q)[2]]
    /\ fs0 = fs
    /\ fresh = FreshFiles({"default.py"})
    /\ data_files = ManifestFrom({1, 4, 8}, 1)
    /\ data_files0 = data_files
    /\ pc = "start"
    /\ hist = NoLibHist
    /\ err = "none"
    /\ user_savedir = NoPath
    /\ dist_config_dict = <<>> /\ config_dict = <<>>
    /\ tmpfn = NoPath /\ backup_path = NoPath
    /\ last = NoCall

\* install.run(self) runs the install_lib command: weewx_install_lib.run
InstallRunsLib == cmd.phase = "lib" /\ NextLib

\* weewx_install_lib.run has returned; install.run goes on to install_data
LibToData ==
    /\ cmd.phase = "lib" /\ pc = "done"
    /\ cmd' = [cmd EXCEPT !.phase = "data"]
    /\ pc' = "start"
    /\ hist' = NoDataHist
    /\ UNCHANGED <<fs, fs0, now, install_dir, dry_run, no_prompt, dist_config_dict,
                   config_dict, tmpfn, backup_path, err, user_savedir, fresh,
                   data_files, data_files0, last>>

\* install.run(self) runs the install_data command: weewx_install_data.run
InstallRunsData == cmd.phase = "data" /\ NextData

\* install.run has returned: "Now the post-install",
\* update_and_install_config(self.install_data, no_prompt=self.no_prompt);
\* dry_run is not passed
DataToConfig ==
    /\ cmd.phase = "data" /\ pc = "done"
    /\ cmd' = [cmd EXCEPT !.phase = "config"]
    /\ dry_run' = DefaultDryRun
    /\ no_prompt' = cmd.no_prompt
    /\ pc' = "start"
    /\ hist' = NoHist
    /\ UNCHANGED <<fs, fs0, now, install_dir, dist_config_dict, config_dict, tmpfn,
                   backup_path, err, user_savedir, fresh, data_files, data_files0,
                   last>>

\* the post-install call runs
InstallRunsConfig == cmd.phase = "config" /\ NextConfig

NextInstall ==
    \/ InstallRunsLib
    \/ LibToData
    \/ InstallRunsData
    \/ DataToConfig
    \/ InstallRunsConfig

SpecInstall == InitInstall /\ [][NextInstall]_vars

\* C18 (as claimed): when the install command runs in dry-run mode, in every
\* state of weewx_install.run the configuration file that existed is at the
\* install path as it was, the user directory that existed is where it was
\* as it was, and nothing was moved to a backup path.
C18_DryRunHonouredByInstall ==
    cmd.dry_run =>
        LET ip == NormPath(InstallPath(install_dir))
            ud == NormPath(UserDir(install_dir))
        IN /\ ip \in DOMAIN fs0 => (ip \in DOMAIN fs /\ fs[ip] = fs0[ip])
           /\ ud \in DOMAIN fs0 => (ud \in DOMAIN fs /\ fs[ud] = fs0[ud])
           /\ backup_path = NoPath
           /\ user_savedir = NoPath
           /\ DOMAIN fs0 \subseteq DOMAIN fs

====
